---- MODULE Spec2Model ----
(***************************************************************************)
(* Model of src/background/model/background-app.ts: the TaskQueue and the  *)
(* BackgroundApp ipcMain command handlers, with the slave process and the  *)
(* renderer (the senders of commands) as the environment.                  *)
(*                                                                         *)
(* JavaScript values are written as tagged literals ("null", "undefined",  *)
(* "bool:false", "str:X", ...), so that truthiness is computed as          *)
(* JavaScript computes it.                                                 *)
(***************************************************************************)
EXTENDS Integers, Sequences, FiniteSets

VARIABLES
  tasks,          \* every task handed to TaskQueue.push, in push order (index = task id)
  queue,          \* TaskQueue.queue: the backlog of task ids, index 1 is the front
  inflight,       \* tasks whose promise has been created and has not settled
  hung,           \* in-flight tasks whose round trip will never settle
  sent,           \* slaveProcess.send calls, in call order
  settled,        \* settlements of task promises, in order
  signals,        \* sender.send calls, in call order
  advisory,       \* the last connection line logged by the LoadProject handler
  exportEnabled,  \* menus.items[0].submenu.items[1].enabled
  states,         \* BackgroundApp.states
  ncmds           \* number of ipcMain events delivered so far

vars == <<tasks, queue, inflight, hung, sent, settled, signals,
          advisory, exportEnabled, states, ncmds>>

\* the number of ipcMain events of a run
MaxCmds == 2

-----------------------------------------------------------------------------
(* Inputs *)

Senders == {"w1", "w2"}
TsConfigs == {"str:tsconfig.json"}
Ids == {"str:n1"}
ConfigValue == "obj:config"

Undefined == "undefined"
Null == "null"

Falsy == {"null", "undefined", "bool:false", "num:0", "str:"}

Truthy(v) == v \notin Falsy

ErrValues == {"null", "str:", "str:X"}
AvailableValues == {"bool:false", "undefined", "str:state-1"}
SymbolsValues == {"undefined", "arr:symbols"}
DataValues == {"null", "obj:data"}

-----------------------------------------------------------------------------
(* shared/ipc-constants as used by the file *)

StatusSuccess == "Success"
StatusFailure == "Failure"

MsgConfig == "Config"
MsgLoadProject == "LoadProject"
MsgPrevState == "PrevState"
MsgDirectStateTransition == "DirectStateTransition"
MsgGetSymbols == "GetSymbols"
MsgGetMetadata == "GetMetadata"
MsgGetData == "GetData"
MsgToggleLibs == "ToggleLibs"
MsgDisableExport == "DisableExport"
MsgEnableExport == "EnableExport"

QueuedKinds == {MsgLoadProject, MsgPrevState, MsgDirectStateTransition,
                MsgGetSymbols, MsgGetMetadata, MsgGetData, MsgToggleLibs}

success(sender, msg, payload) ==
  [sender |-> sender, msg |-> msg, status |-> StatusSuccess, payload |-> payload]

error(sender, msg, payload) ==
  [sender |-> sender, msg |-> msg, status |-> StatusFailure, payload |-> payload]

-----------------------------------------------------------------------------
(* The worker's replies: one record shape for all response types, a field  *)
(* the response type does not have reads as undefined.                     *)

Response(err, available, symbols, data) ==
  [err |-> err, available |-> available, symbols |-> symbols, data |-> data]

Replies(kind) ==
  CASE kind = MsgLoadProject ->
         {Response(x, Undefined, Undefined, Undefined) : x \in ErrValues}
    [] kind \in {MsgPrevState, MsgDirectStateTransition} ->
         {Response(Undefined, x, Undefined, Undefined) : x \in AvailableValues}
    [] kind = MsgGetSymbols ->
         {Response(Undefined, Undefined, x, Undefined) : x \in SymbolsValues}
    [] kind \in {MsgGetMetadata, MsgGetData} ->
         {Response(Undefined, Undefined, Undefined, x) : x \in DataValues}
    [] OTHER ->
         {Response(x, Undefined, Undefined, Undefined) : x \in {Undefined, "str:X"}}

-----------------------------------------------------------------------------
(* The tasks the handlers push: the closure's captured variables *)

Task(kind, sender, tsconfig, showLibs, id) ==
  [kind |-> kind, sender |-> sender, tsconfig |-> tsconfig,
   showLibs |-> showLibs, id |-> id]

\* the argument of slaveProcess.send in each task
Request(task) ==
  CASE task.kind = MsgLoadProject ->
         [topic |-> MsgLoadProject, tsconfig |-> task.tsconfig,
          showLibs |-> task.showLibs, id |-> Undefined]
    [] task.kind \in {MsgDirectStateTransition, MsgGetMetadata} ->
         [topic |-> task.kind, tsconfig |-> Undefined,
          showLibs |-> Undefined, id |-> task.id]
    [] OTHER ->
         [topic |-> task.kind, tsconfig |-> Undefined,
          showLibs |-> Undefined, id |-> Undefined]

\* the .then callbacks of the tasks: the sender.send calls each makes

\* LoadProjectThen with the test (data.err !== null) in place of truthiness
LoadProjectThenNullTest(sender, data) ==
  IF data.err # Null
    THEN <<error(sender, MsgLoadProject, data.err)>>
    ELSE <<success(sender, MsgLoadProject, Null)>>

LoadProjectThen(sender, data) ==
  IF Truthy(data.err)
    THEN <<error(sender, MsgLoadProject, data.err)>>
    ELSE <<success(sender, MsgLoadProject, Null)>>

PrevStateThen(sender, data) ==
  IF Truthy(data.available)
    THEN <<success(sender, MsgPrevState, data.available)>>
    ELSE <<error(sender, MsgPrevState, data.available)>>

\* DirectStateTransitionThen as a copy of PrevStateThen that kept its message
DirectStateTransitionThenCopied(sender, data) ==
  IF Truthy(data.available)
    THEN <<success(sender, MsgPrevState, data.available)>>
    ELSE <<error(sender, MsgPrevState, data.available)>>

DirectStateTransitionThen(sender, data) ==
  IF Truthy(data.available)
    THEN <<success(sender, MsgDirectStateTransition, data.available)>>
    ELSE <<error(sender, MsgDirectStateTransition, data.available)>>

\* GetSymbolsThen with the else branch of the other handlers
GetSymbolsThenWithFailure(sender, data) ==
  IF Truthy(data.symbols)
    THEN <<success(sender, MsgGetSymbols, data.symbols)>>
    ELSE <<error(sender, MsgGetSymbols, Null)>>

\* GetSymbolsThen without the test of data.symbols
GetSymbolsThenNoTest(sender, data) ==
  <<success(sender, MsgGetSymbols, data.symbols)>>

GetSymbolsThen(sender, data) ==
  IF Truthy(data.symbols)
    THEN <<success(sender, MsgGetSymbols, data.symbols)>>
    ELSE <<>>

GetMetadataThen(sender, response) ==
  IF Truthy(response.data)
    THEN <<success(sender, MsgGetMetadata, response.data)>>
    ELSE <<error(sender, MsgGetMetadata, Null)>>

\* GetDataThen without its else branch, as in the GetSymbols callback
GetDataThenNoFailure(sender, response) ==
  IF Truthy(response.data)
    THEN <<success(sender, MsgGetData, response.data)>>
    ELSE <<>>

GetDataThen(sender, response) ==
  IF Truthy(response.data)
    THEN <<success(sender, MsgGetData, response.data)>>
    ELSE <<error(sender, MsgGetData, Null)>>

\* ToggleLibsThen with the err test of the LoadProject callback
ToggleLibsThenErrTest(sender, data) ==
  IF Truthy(data.err)
    THEN <<error(sender, MsgToggleLibs, data.err)>>
    ELSE <<success(sender, MsgToggleLibs, "bool:true")>>

ToggleLibsThen(sender, data) ==
  <<success(sender, MsgToggleLibs, "bool:true")>>

\* Then with one variable e shared by the handlers, which holds the event of
\* the command received last
ThenSharedEvent(task, data) ==
  LET e == tasks[Len(tasks)] IN
  CASE task.kind = MsgLoadProject -> LoadProjectThen(e.sender, data)
    [] task.kind = MsgPrevState -> PrevStateThen(e.sender, data)
    [] task.kind = MsgDirectStateTransition -> DirectStateTransitionThen(e.sender, data)
    [] task.kind = MsgGetSymbols -> GetSymbolsThen(e.sender, data)
    [] task.kind = MsgGetMetadata -> GetMetadataThen(e.sender, data)
    [] task.kind = MsgGetData -> GetDataThen(e.sender, data)
    [] OTHER -> ToggleLibsThen(e.sender, data)

Then(task, data) ==
  CASE task.kind = MsgLoadProject -> LoadProjectThen(task.sender, data)
    [] task.kind = MsgPrevState -> PrevStateThen(task.sender, data)
    [] task.kind = MsgDirectStateTransition -> DirectStateTransitionThen(task.sender, data)
    [] task.kind = MsgGetSymbols -> GetSymbolsThen(task.sender, data)
    [] task.kind = MsgGetMetadata -> GetMetadataThen(task.sender, data)
    [] task.kind = MsgGetData -> GetDataThen(task.sender, data)
    [] OTHER -> ToggleLibsThen(task.sender, data)

-----------------------------------------------------------------------------
(* TaskQueue *)

unshift(q, t) == <<t>> \o q

\* pop that reads the last task and leaves it in the backlog
popPeek(q) == q

pop(q) == IF Len(q) = 0 THEN q ELSE SubSeq(q, 1, Len(q) - 1)

popped(q) == IF Len(q) = 0 THEN 0 ELSE q[Len(q)]

\* ShouldDispatch with the length the backlog had before unshift
ShouldDispatchBeforeUnshift(q) == Len(q) = 0

\* ShouldDispatch that also asks that no task is in flight
ShouldDispatchIdle(q) == Len(q) = 1 /\ inflight = {}

\* the condition under which push calls next
ShouldDispatch(q) == Len(q) = 1

\* TaskQueue.next on backlog q, with flying the tasks in flight and table
\* the tasks pushed so far: the popped task, if any, is called, which sends
\* its request to the slave process
next(q, flying, table) ==
  LET task == popped(q) IN
    /\ queue' = pop(q)
    /\ IF task # 0
         THEN /\ inflight' = flying \cup {task}
              /\ sent' = Append(sent, [task |-> task, req |-> Request(table[task])])
         ELSE /\ inflight' = flying
              /\ UNCHANGED sent

\* push that inserts the task and does not call next
pushNoDispatch(task) ==
  /\ tasks' = Append(tasks, task)
  /\ queue' = unshift(queue, Len(tasks) + 1)
  /\ UNCHANGED <<inflight, sent>>

\* TaskQueue.push
push(task) ==
  LET t == Len(tasks) + 1
      table == Append(tasks, task)
      q == unshift(queue, t)
  IN /\ tasks' = table
     /\ IF ShouldDispatch(q)
          THEN next(q, inflight, table)
          ELSE /\ queue' = q
               /\ UNCHANGED <<inflight, sent>>

-----------------------------------------------------------------------------
(* BackgroundApp *)

state == IF Len(states) = 0 THEN Undefined ELSE states[Len(states)]

Init ==
  /\ tasks = <<>>
  /\ queue = <<>>
  /\ inflight = {}
  /\ hung = {}
  /\ sent = <<>>
  /\ settled = <<>>
  /\ signals = <<>>
  /\ advisory = "none"
  /\ exportEnabled \in BOOLEAN
  /\ states = <<>>
  /\ ncmds = 0

\* an ipcMain event is delivered
Receive ==
  /\ ncmds < MaxCmds
  /\ ncmds' = ncmds + 1

Config(e) ==
  /\ Receive
  /\ signals' = Append(signals, success(e, MsgConfig, ConfigValue))
  /\ UNCHANGED <<tasks, queue, inflight, hung, sent, settled,
                 advisory, exportEnabled, states>>

\* LoadProject that returns after the log line when the slave process is
\* not connected
LoadProjectWhenConnected(e, tsconfig, showLibs, connected) ==
  /\ Receive
  /\ advisory' = IF ~connected THEN "not ready" ELSE "connected"
  /\ IF connected
       THEN push(Task(MsgLoadProject, e, tsconfig, showLibs, Undefined))
       ELSE UNCHANGED <<tasks, queue, inflight, sent>>
  /\ UNCHANGED <<hung, settled, signals, exportEnabled, states>>

\* connected is the value of slaveProcess.connected the handler reads
LoadProject(e, tsconfig, showLibs, connected) ==
  /\ Receive
  /\ advisory' = IF ~connected THEN "not ready" ELSE "connected"
  /\ push(Task(MsgLoadProject, e, tsconfig, showLibs, Undefined))
  /\ UNCHANGED <<hung, settled, signals, exportEnabled, states>>

PrevState(e) ==
  /\ Receive
  /\ push(Task(MsgPrevState, e, Undefined, Undefined, Undefined))
  /\ UNCHANGED <<hung, settled, signals, advisory, exportEnabled, states>>

\* DirectStateTransition that records the requested state in the history
DirectStateTransitionRecords(e, id) ==
  /\ Receive
  /\ push(Task(MsgDirectStateTransition, e, Undefined, Undefined, id))
  /\ states' = Append(states, id)
  /\ UNCHANGED <<hung, settled, signals, advisory, exportEnabled>>

DirectStateTransition(e, id) ==
  /\ Receive
  /\ push(Task(MsgDirectStateTransition, e, Undefined, Undefined, id))
  /\ UNCHANGED <<hung, settled, signals, advisory, exportEnabled, states>>

GetSymbols(e) ==
  /\ Receive
  /\ push(Task(MsgGetSymbols, e, Undefined, Undefined, Undefined))
  /\ UNCHANGED <<hung, settled, signals, advisory, exportEnabled, states>>

GetMetadata(e, id) ==
  /\ Receive
  /\ push(Task(MsgGetMetadata, e, Undefined, Undefined, id))
  /\ UNCHANGED <<hung, settled, signals, advisory, exportEnabled, states>>

GetData(e) ==
  /\ Receive
  /\ push(Task(MsgGetData, e, Undefined, Undefined, Undefined))
  /\ UNCHANGED <<hung, settled, signals, advisory, exportEnabled, states>>

ToggleLibs(e) ==
  /\ Receive
  /\ push(Task(MsgToggleLibs, e, Undefined, Undefined, Undefined))
  /\ UNCHANGED <<hung, settled, signals, advisory, exportEnabled, states>>

DisableExport(e) ==
  /\ Receive
  /\ exportEnabled' = FALSE
  /\ signals' = Append(signals, success(e, MsgDisableExport, "bool:true"))
  /\ UNCHANGED <<tasks, queue, inflight, hung, sent, settled,
                 advisory, states>>

\* EnableExport as a copy of DisableExport that kept its assignment
EnableExportCopied(e) ==
  /\ Receive
  /\ exportEnabled' = FALSE
  /\ signals' = Append(signals, success(e, MsgEnableExport, "bool:true"))
  /\ UNCHANGED <<tasks, queue, inflight, hung, sent, settled,
                 advisory, states>>

EnableExport(e) ==
  /\ Receive
  /\ exportEnabled' = TRUE
  /\ signals' = Append(signals, success(e, MsgEnableExport, "bool:true"))
  /\ UNCHANGED <<tasks, queue, inflight, hung, sent, settled,
                 advisory, states>>

-----------------------------------------------------------------------------
(* The slave process: the round trip of an in-flight task settles.  The    *)
(* task's promise settles after its .then callback has run, and the        *)
(* queue's callback on it calls next.                                      *)

Resolve(t, data) ==
  /\ t \in inflight \ hung
  /\ data \in Replies(tasks[t].kind)
  /\ signals' = signals \o Then(tasks[t], data)
  /\ settled' = Append(settled, [task |-> t, outcome |-> "resolved", data |-> data])
  /\ next(queue, inflight \ {t}, tasks)
  /\ UNCHANGED <<tasks, hung, advisory, exportEnabled, states, ncmds>>

NoResponse == Response(Undefined, Undefined, Undefined, Undefined)

\* Reject with a queue that calls a rejected task again
RejectRetry(t) ==
  /\ t \in inflight \ hung
  /\ settled' = Append(settled, [task |-> t, outcome |-> "rejected", data |-> NoResponse])
  /\ next(unshift(queue, t), inflight \ {t}, tasks)
  /\ UNCHANGED <<tasks, hung, signals, advisory, exportEnabled, states, ncmds>>

\* Reject with a rejection callback in the task that signals the failure
RejectSignalsFailure(t) ==
  /\ t \in inflight \ hung
  /\ signals' = Append(signals, error(tasks[t].sender, tasks[t].kind, Null))
  /\ settled' = Append(settled, [task |-> t, outcome |-> "rejected", data |-> NoResponse])
  /\ next(queue, inflight \ {t}, tasks)
  /\ UNCHANGED <<tasks, hung, advisory, exportEnabled, states, ncmds>>

Reject(t) ==
  /\ t \in inflight \ hung
  /\ settled' = Append(settled, [task |-> t, outcome |-> "rejected", data |-> NoResponse])
  /\ next(queue, inflight \ {t}, tasks)
  /\ UNCHANGED <<tasks, hung, signals, advisory, exportEnabled, states, ncmds>>

\* the round trip of an in-flight task is lost: its promise never settles
Hang(t) ==
  /\ t \in inflight \ hung
  /\ hung' = hung \cup {t}
  /\ UNCHANGED <<tasks, queue, inflight, sent, settled, signals,
                 advisory, exportEnabled, states, ncmds>>

\* the ipcMain events
Commands ==
  \/ \E e \in Senders : Config(e)
  \/ \E e \in Senders, tsconfig \in TsConfigs, showLibs \in BOOLEAN, connected \in BOOLEAN :
       LoadProject(e, tsconfig, showLibs, connected)
  \/ \E e \in Senders : PrevState(e)
  \/ \E e \in Senders, id \in Ids : DirectStateTransition(e, id)
  \/ \E e \in Senders : GetSymbols(e)
  \/ \E e \in Senders, id \in Ids : GetMetadata(e, id)
  \/ \E e \in Senders : GetData(e)
  \/ \E e \in Senders : ToggleLibs(e)
  \/ \E e \in Senders : DisableExport(e)
  \/ \E e \in Senders : EnableExport(e)

\* the round trip of task t settles
SettleTask(t) ==
  /\ t \in inflight
  /\ \/ \E data \in Replies(tasks[t].kind) : Resolve(t, data)
     \/ Reject(t)

Next ==
  \/ Commands
  \/ \E t \in inflight : SettleTask(t)
  \/ \E t \in inflight : Hang(t)

Spec == Init /\ [][Next]_vars

\* the runs in which every round trip settles
NextSettling ==
  \/ Commands
  \/ \E t \in inflight : SettleTask(t)

SettlingSpec ==
  /\ Init
  /\ [][NextSettling]_vars
  /\ \A t \in 1..MaxCmds : WF_vars(SettleTask(t))

-----------------------------------------------------------------------------
(* Observations on a run *)

Started(t) == \E i \in DOMAIN sent : sent[i].task = t

StartCount(log, t) == Cardinality({i \in DOMAIN log : log[i].task = t})

Settled(t) == \E i \in DOMAIN settled : settled[i].task = t

Resolved(t, data) ==
  \E i \in DOMAIN settled :
    settled[i] = [task |-> t, outcome |-> "resolved", data |-> data]

Rejected(t) ==
  \E i \in DOMAIN settled : settled[i].task = t /\ settled[i].outcome = "rejected"

Emitted(s) == \E i \in DOMAIN signals : signals[i] = s

Signal(sender, msg, status, payload) ==
  [sender |-> sender, msg |-> msg, status |-> status, payload |-> payload]

\* a signal of task t's command is among the signals
Signalled(t) ==
  \E i \in DOMAIN signals :
    signals[i].sender = tasks[t].sender /\ signals[i].msg = tasks[t].kind

\* this step settles a task; Settlement is then the record of it
Settles == Len(settled') = Len(settled) + 1

Settlement == settled'[Len(settled')]

-----------------------------------------------------------------------------
(* C1: at most one task is in flight (started and not yet settled) against *)
(* the worker in every reachable state.                                    *)
MutualExclusion == Cardinality(inflight) <= 1

(* C2: when the worker round trip of command N+1 has begun, the signal of  *)
(* command N has been emitted.                                             *)
SignalBeforeNextRoundTrip ==
  \A t \in DOMAIN tasks : (t > 1 /\ Started(t)) => Signalled(t - 1)

(* C3: tasks settle in the order they were pushed.                         *)
FIFOSettlement ==
  \A i, j \in DOMAIN settled : i < j => settled[i].task < settled[j].task

(* C4: the order in which tasks are started equals the order in which they *)
(* were pushed: no task is skipped, overtaken, cancelled or merged.        *)
FIFODispatch ==
  /\ Len(sent) = Len(tasks)
  /\ \A i \in DOMAIN sent : sent[i].task = i

FIFODispatchWitness ==
  /\ Len(tasks) = 2
  /\ Len(sent) = 2
  /\ Settled(1)
  /\ 2 \in inflight

(* C5, as claimed: every settlement of a task, resolved or rejected,       *)
(* appends exactly one signal, Success or Failure, of the task's command   *)
(* kind on the task's reply channel.                                       *)
EverySettlementSignalsOnce ==
  [][LET r == Settlement IN
       Settles =>
         \E st \in {StatusSuccess, StatusFailure} :
           /\ Len(signals') = Len(signals) + 1
           /\ SubSeq(signals', 1, Len(signals)) = signals
           /\ signals'[Len(signals')].sender = tasks[r.task].sender
           /\ signals'[Len(signals')].msg = tasks[r.task].kind
           /\ signals'[Len(signals')].status = st]_vars

(* C5, amended: a settlement appends at most one signal; exactly one, of   *)
(* the task's kind on the task's channel, when the round trip resolved,    *)
(* except that a GetSymbols reply without symbols appends none; a rejected *)
(* round trip appends none.                                                *)
SettlementSignalsAtMostOnce ==
  [][LET r == Settlement IN
       Settles =>
         IF \/ r.outcome = "rejected"
            \/ /\ tasks[r.task].kind = MsgGetSymbols
               /\ r.data.symbols \in {"undefined", "null"}
           THEN signals' = signals
           ELSE \E st \in {StatusSuccess, StatusFailure} :
                  /\ Len(signals') = Len(signals) + 1
                  /\ SubSeq(signals', 1, Len(signals)) = signals
                  /\ signals'[Len(signals')].sender = tasks[r.task].sender
                  /\ signals'[Len(signals')].msg = tasks[r.task].kind
                  /\ signals'[Len(signals')].status = st]_vars

SettlementSignalsWitness ==
  /\ Len(settled) = 2
  /\ \E t \in DOMAIN tasks :
       /\ tasks[t].kind = MsgGetSymbols
       /\ Resolved(t, Response(Undefined, Undefined, Undefined, Undefined))
  /\ \E t \in DOMAIN tasks :
       /\ tasks[t].kind = MsgGetData
       /\ Resolved(t, Response(Undefined, Undefined, Undefined, "obj:data"))
  /\ Len(signals) = 1

(* C6: a rejected task is not started again, and every task pushed after a *)
(* task that rejected is started once; when it resolves, the signal of its *)
(* reply is emitted.                                                       *)
QueueSurvivesFailure ==
  \A a \in DOMAIN tasks :
    Rejected(a) =>
      /\ StartCount(sent, a) = 1
      /\ StartCount(settled, a) = 1
      /\ \A b \in DOMAIN tasks :
           b > a =>
             /\ StartCount(sent, b) = 1
             /\ \A i \in DOMAIN settled :
                  (settled[i].task = b /\ settled[i].outcome = "resolved") =>
                    \A k \in DOMAIN Then(tasks[b], settled[i].data) :
                      Emitted(Then(tasks[b], settled[i].data)[k])

QueueSurvivesFailureWitness ==
  /\ Len(settled) = 2
  /\ settled[1].task = 1
  /\ settled[1].outcome = "rejected"
  /\ settled[2].task = 2
  /\ settled[2].outcome = "resolved"
  /\ tasks[2].kind = MsgToggleLibs
  /\ signals = <<Signal(tasks[2].sender, MsgToggleLibs, StatusSuccess, "bool:true")>>

(* C7: no task pushed after a task whose round trip never settles begins   *)
(* executing.                                                              *)
NeverSettlingStalls ==
  \A a \in hung : \A b \in DOMAIN tasks : b > a => ~Started(b)

(* C8: every pushed task is started exactly once; an idle queue (empty     *)
(* backlog, nothing in flight) stays idle until a push; a settlement that  *)
(* finds the backlog empty starts nothing.                                 *)
IdempotentDraining ==
  [][/\ \A t \in DOMAIN tasks' : StartCount(sent', t) = 1
     /\ (queue = <<>> /\ inflight = {} /\ tasks' = tasks) =>
          (queue' = <<>> /\ inflight' = {} /\ sent' = sent)
     /\ (Len(settled') > Len(settled) /\ queue = <<>>) =>
          (sent' = sent /\ inflight' \subseteq inflight)]_vars

IdempotentDrainingWitness ==
  /\ Len(tasks) = 2
  /\ Len(settled) = 2
  /\ Len(sent) = 2
  /\ queue = <<>>
  /\ inflight = {}

(* C9: a LoadProject reply without an err value (null, or the empty        *)
(* string) is answered by exactly Success with payload null, a reply with  *)
(* the err value "X" by exactly Failure with payload "X".                  *)
LoadProjectMapping ==
  [][LET r == Settlement IN
       (/\ Settles
        /\ r.outcome = "resolved"
        /\ tasks[r.task].kind = MsgLoadProject) =>
         /\ r.data.err \in {"null", "str:"} =>
              signals' = Append(signals,
                Signal(tasks[r.task].sender, "LoadProject", "Success", "null"))
         /\ r.data.err = "str:X" =>
              signals' = Append(signals,
                Signal(tasks[r.task].sender, "LoadProject", "Failure", "str:X"))]_vars

LoadProjectMappingWitness ==
  /\ \E t \in DOMAIN tasks :
       /\ Resolved(t, Response("str:", Undefined, Undefined, Undefined))
       /\ Emitted(Signal(tasks[t].sender, "LoadProject", "Success", "null"))
  /\ \E t \in DOMAIN tasks :
       /\ Resolved(t, Response("str:X", Undefined, Undefined, Undefined))
       /\ Emitted(Signal(tasks[t].sender, "LoadProject", "Failure", "str:X"))
  /\ Len(signals) = 2

(* C10: a PrevState or DirectStateTransition reply whose available value   *)
(* is truthy ("state-1") is answered by Success carrying that value, a     *)
(* reply whose available value is falsy (false, undefined) by Failure      *)
(* carrying that value, under the message of the originating command.      *)
AvailableMapping ==
  [][LET r == Settlement IN
       (/\ Settles
        /\ r.outcome = "resolved"
        /\ tasks[r.task].kind \in {"PrevState", "DirectStateTransition"}) =>
         /\ r.data.available = "str:state-1" =>
              signals' = Append(signals,
                Signal(tasks[r.task].sender, tasks[r.task].kind, "Success", "str:state-1"))
         /\ r.data.available \in {"bool:false", "undefined"} =>
              signals' = Append(signals,
                Signal(tasks[r.task].sender, tasks[r.task].kind, "Failure", r.data.available))]_vars

AvailableMappingWitness ==
  /\ \E t \in DOMAIN tasks :
       /\ tasks[t].kind = MsgPrevState
       /\ Resolved(t, Response(Undefined, "str:state-1", Undefined, Undefined))
       /\ Emitted(Signal(tasks[t].sender, "PrevState", "Success", "str:state-1"))
  /\ \E t \in DOMAIN tasks :
       /\ tasks[t].kind = MsgDirectStateTransition
       /\ Resolved(t, Response(Undefined, "bool:false", Undefined, Undefined))
       /\ Emitted(Signal(tasks[t].sender, "DirectStateTransition", "Failure", "bool:false"))
  /\ Len(signals) = 2

(* C11: a GetMetadata or GetData reply that carries a data payload is      *)
(* answered by Success with that payload, a reply without one (null) by    *)
(* Failure with payload null, under the message of the originating command. *)
DataMapping ==
  [][LET r == Settlement IN
       (/\ Settles
        /\ r.outcome = "resolved"
        /\ tasks[r.task].kind \in {"GetMetadata", "GetData"}) =>
         /\ r.data.data = "obj:data" =>
              signals' = Append(signals,
                Signal(tasks[r.task].sender, tasks[r.task].kind, "Success", "obj:data"))
         /\ r.data.data = "null" =>
              signals' = Append(signals,
                Signal(tasks[r.task].sender, tasks[r.task].kind, "Failure", "null"))]_vars

DataMappingWitness ==
  /\ \E t \in DOMAIN tasks :
       /\ tasks[t].kind = MsgGetMetadata
       /\ Resolved(t, Response(Undefined, Undefined, Undefined, "obj:data"))
       /\ Emitted(Signal(tasks[t].sender, "GetMetadata", "Success", "obj:data"))
  /\ \E t \in DOMAIN tasks :
       /\ tasks[t].kind = MsgGetData
       /\ Resolved(t, Response(Undefined, Undefined, Undefined, "null"))
       /\ Emitted(Signal(tasks[t].sender, "GetData", "Failure", "null"))
  /\ Len(signals) = 2

SymbolsAsymmetry ==
  [][LET r == Settlement IN
       (/\ Settles
        /\ r.outcome = "resolved"
        /\ tasks[r.task].kind = "GetSymbols") =>
         /\ r.data.symbols = "arr:symbols" =>
              signals' = Append(signals,
                Signal(tasks[r.task].sender, "GetSymbols", "Success", "arr:symbols"))
         /\ r.data.symbols = "undefined" =>
              /\ signals' = signals
              /\ r.task \notin inflight'
              /\ queue' = pop(queue)
              /\ \A b \in DOMAIN tasks' : b > r.task => StartCount(sent', b) = 1]_vars

SymbolsAsymmetryWitness ==
  /\ Len(tasks) = 2
  /\ tasks[1].kind = MsgGetSymbols
  /\ settled = <<[task |-> 1, outcome |-> "resolved",
                  data |-> Response(Undefined, Undefined, Undefined, Undefined)]>>
  /\ signals = <<>>
  /\ 2 \in inflight

\* the signals of the command kind msg on the reply channel of sender
SignalsOf(log, sender, msg) ==
  {i \in DOMAIN log : log[i].sender = sender /\ log[i].msg = msg}

\* the resolved round trips of the commands of kind msg from sender
ResolvedOf(log, sender, msg) ==
  {i \in DOMAIN log : /\ log[i].outcome = "resolved"
                      /\ tasks[log[i].task].sender = sender
                      /\ tasks[log[i].task].kind = msg}

(* C14: a rejected round trip emits no signal, its task leaves the         *)
(* in-flight set and next runs on the backlog as after any settlement, and *)
(* every task pushed after it is started; whenever a signal is emitted,    *)
(* the commands of its kind on its channel have no more signals than       *)
(* resolved round trips.                                                   *)
TransportFailure ==
  [][/\ LET r == Settlement IN
          (Settles /\ r.outcome = "rejected") =>
            /\ signals' = signals
            /\ queue' = pop(queue)
            /\ inflight' = (inflight \ {r.task}) \cup
                             (IF queue = <<>> THEN {} ELSE {queue[Len(queue)]})
            /\ \A b \in DOMAIN tasks' : b > r.task => StartCount(sent', b) = 1
     /\ LET s == signals'[Len(signals')] IN
          (Len(signals') > Len(signals) /\ s.msg \in QueuedKinds) =>
            Cardinality(SignalsOf(signals', s.sender, s.msg))
              <= Cardinality(ResolvedOf(settled', s.sender, s.msg))]_vars

TransportFailureWitness ==
  /\ Len(tasks) = 2
  /\ tasks[1].kind = MsgLoadProject
  /\ settled = <<[task |-> 1, outcome |-> "rejected", data |-> NoResponse]>>
  /\ signals = <<>>
  /\ inflight = {2}

(* C15: a DisableExport or EnableExport event sets the export item's       *)
(* enabled flag to false resp. true and appends Success with payload true  *)
(* on the event's channel in the same step, in any state of the queue, and *)
(* leaves the backlog, the tasks in flight and the worker requests as they *)
(* were; an event that pushes no task is answered at once.                 *)
ExportBypass ==
  [][LET s == signals'[Len(signals')] IN
       /\ (ncmds' # ncmds /\ tasks' = tasks) =>
            /\ signals' = Append(signals, s)
            /\ s.msg \in {"Config", "DisableExport", "EnableExport"}
       /\ (/\ ncmds' # ncmds
           /\ Len(signals') > Len(signals)
           /\ s.msg \in {"DisableExport", "EnableExport"}) =>
            /\ signals' = Append(signals, s)
            /\ s.sender \in Senders
            /\ s.status = "Success"
            /\ s.payload = "bool:true"
            /\ exportEnabled' = (s.msg = "EnableExport")
            /\ UNCHANGED <<tasks, queue, inflight, hung, sent, settled>>]_vars

ExportBypassWitness ==
  /\ inflight = {1}
  /\ Len(sent) = 1
  /\ exportEnabled
  /\ signals = <<Signal("w2", "EnableExport", "Success", "bool:true")>>

\* the interpretation rule of each command kind: the outcome and payload of
\* the signal for a reply, none when the rule emits no signal
Rule(kind, data) ==
  CASE kind = "LoadProject" ->
         IF data.err \in {"null", "undefined", "str:"}
           THEN <<[status |-> "Success", payload |-> "null"]>>
           ELSE <<[status |-> "Failure", payload |-> data.err]>>
    [] kind \in {"PrevState", "DirectStateTransition"} ->
         IF data.available \in {"bool:false", "undefined", "null"}
           THEN <<[status |-> "Failure", payload |-> data.available]>>
           ELSE <<[status |-> "Success", payload |-> data.available]>>
    [] kind = "GetSymbols" ->
         IF data.symbols \in {"undefined", "null"}
           THEN <<>>
           ELSE <<[status |-> "Success", payload |-> data.symbols]>>
    [] kind \in {"GetMetadata", "GetData"} ->
         IF data.data \in {"undefined", "null"}
           THEN <<[status |-> "Failure", payload |-> "null"]>>
           ELSE <<[status |-> "Success", payload |-> data.data]>>
    [] kind = "ToggleLibs" ->
         <<[status |-> "Success", payload |-> "bool:true"]>>

(* C16: the signals a resolved round trip appends carry the kind of the    *)
(* command that sent the request, go to the sender that command came from, *)
(* and have the outcome and payload of that kind's rule on that command's  *)
(* own reply, whatever other commands are in flight or were received since. *)
NoCrossRouting ==
  [][LET r == Settlement IN
       (Settles /\ r.outcome = "resolved") =>
         LET c == tasks[r.task]
             out == Rule(c.kind, r.data)
         IN signals' = signals \o
              [i \in DOMAIN out |->
                 Signal(c.sender, c.kind, out[i].status, out[i].payload)]]_vars

NoCrossRoutingWitness ==
  /\ Len(settled) = 2
  /\ settled[1].task = 2
  /\ settled[2].task = 1
  /\ tasks[1].sender # tasks[2].sender
  /\ tasks[1].kind = MsgGetData
  /\ tasks[2].kind = MsgPrevState
  /\ Len(signals) = 2
  /\ signals[1].sender = tasks[2].sender
  /\ signals[1].msg = MsgPrevState
  /\ signals[2].sender = tasks[1].sender
  /\ signals[2].msg = MsgGetData

(* C17: in every reachable state the project state history is empty and   *)
(* the state getter returns undefined.                                     *)
HistoryEmpty == states = <<>> /\ state = "undefined"

HistoryEmptyWitness ==
  /\ \E t \in DOMAIN tasks :
       /\ tasks[t].kind = MsgLoadProject
       /\ Resolved(t, Response("null", Undefined, Undefined, Undefined))
  /\ \E t \in DOMAIN tasks :
       /\ tasks[t].kind = MsgDirectStateTransition
       /\ Resolved(t, Response(Undefined, "str:state-1", Undefined, Undefined))
  /\ Len(states) = 0

(* C18: a LoadProject event pushes the same task and sends the same worker *)
(* request (topic LoadProject, the event's tsconfig and showLibs) whether  *)
(* the slave process is connected or not; nothing but the logged line      *)
(* depends on the flag.                                                    *)
ConnectedAdvisoryOnly ==
  [][\A e \in Senders, tsconfig \in TsConfigs, showLibs \in BOOLEAN, connected \in BOOLEAN :
       LoadProject(e, tsconfig, showLibs, connected) =>
         /\ tasks' = Append(tasks,
              [kind |-> "LoadProject", sender |-> e, tsconfig |-> tsconfig,
               showLibs |-> showLibs, id |-> "undefined"])
         /\ sent' = Append(sent,
              [task |-> Len(tasks) + 1,
               req |-> [topic |-> "LoadProject", tsconfig |-> tsconfig,
                        showLibs |-> showLibs, id |-> "undefined"]])
         /\ inflight' = inflight \cup {Len(tasks) + 1}
         /\ UNCHANGED <<queue, hung, settled, signals, exportEnabled, states>>]_vars

ConnectedAdvisoryOnlyWitness ==
  /\ advisory = "not ready"
  /\ Len(tasks) = 1
  /\ Len(sent) = 1
  /\ sent[1].req.topic = MsgLoadProject
  /\ inflight = {1}

(* C19: between events the backlog is empty, and the number of tasks in    *)
(* flight is the number of pushed tasks that have not settled.             *)
BacklogEmpty ==
  /\ queue = <<>>
  /\ Cardinality(inflight) = Len(tasks) - Len(settled)

BacklogEmptyWitness ==
  /\ Len(tasks) = 2
  /\ settled = <<>>
  /\ queue = <<>>
  /\ Cardinality(inflight) = 2

(* C20: when every round trip settles, from some point on every pushed     *)
(* task has been started and has settled and the queue is idle: the        *)
(* backlog is empty and nothing is in flight.  A pushed task stays pushed, *)
(* so each one is eventually started and eventually settles.               *)
EventuallyDrained ==
  <>[](/\ \A t \in DOMAIN tasks : Started(t) /\ Settled(t)
       /\ queue = <<>>
       /\ inflight = {})

EventuallyDrainedWitness ==
  /\ ncmds = MaxCmds
  /\ Len(tasks) = MaxCmds
  /\ \A t \in DOMAIN tasks : Started(t) /\ Settled(t)
  /\ queue = <<>>
  /\ inflight = {}

====
